---- MODULE Spec2Model ----
(***************************************************************************)
(* Order placement and payment reconciliation of the bizzie backend.       *)
(*                                                                         *)
(* The relational store is modelled row by row.  No handler of the source  *)
(* opens a transaction (no transaction.atomic, no select_for_update), so   *)
(* every ORM statement commits on its own: a handler is a sequence of      *)
(* steps, one per statement that writes (the reads that feed a write are   *)
(* taken with the step that loads the model instance).  Model.save()       *)
(* writes every column of the in-memory instance, so a handler that loaded *)
(* a row earlier writes back the values it loaded.  Several requests are   *)
(* in flight at once (one slot per worker), and a request may die between  *)
(* two statements (an exception from the store, a killed worker).          *)
(*                                                                         *)
(* Money is counted in minor units (integers).                             *)
(***************************************************************************)
EXTENDS Integers, Sequences, FiniteSets, TLC

\* ---------------------------------------------------------------- bounds
\* requests in flight at once
MaxReqs == 2
\* requests accepted in one run of the cart and checkout handlers
MaxCartRequests == 4
\* requests accepted in one run of the payment and status handlers
MaxPayRequests == 3
MaxPrice == 2
MaxQty == 2
MaxOrderNumbers == 2

Users == {"u1", "u2"}
\* the users who fill a cart and check out
Shoppers == {"u1"}
Foods == {"f1", "f2"}
Reqs == 1..MaxReqs
Prices == 1..MaxPrice
OrderNumbers == 1..MaxOrderNumbers
\* references drawn by InitializePaymentView.generate_reference ("PAY" + 8 + 6
\* characters) and by the orders app's InitiatePaymentView ("PAY" + 10 digits):
\* the two formats have different lengths and never coincide
PayRefs == {"p1", "p2"}
MockRefs == {"m1"}
Refs == PayRefs \cup MockRefs
NoRef == "none"
NoTime == 0

ORDER_STATUS == {"pending", "shipped", "completed", "cancelled"}
PAYMENT_STATUS == {"pending", "paid", "failed", "refunded"}
PAYMENT_STATUS_CHOICES == {"pending", "successful", "failed"}

VARIABLES
    price,       \* Food.current_price of every food
    cartExists,  \* whether the user has an active Cart row
    cartItems,   \* CartItem rows: user -> food -> [quantity, price_snapshot]; quantity 0: no row
    orders,      \* Order rows, by id (the index)
    orderItems,  \* OrderItem rows, a set of [order, food, food_price, quantity]
    history,     \* OrderStatusHistory rows, in insertion order
    payments,    \* Payment rows, by id (the index)
    now,         \* timezone.now(), a logical clock
    req,         \* the requests in flight: per slot, the handler's position and locals
    resp,        \* the response most recently returned to a client
    quota        \* the number of requests that may still be accepted

vars == <<price, cartExists, cartItems, orders, orderItems, history, payments, now, req,
          resp, quota>>

\* ------------------------------------------------------------------ rows
NoLine == [quantity |-> 0, price_snapshot |-> 0]

NoOrder ==
    [user |-> "none", order_number |-> 0, status |-> "pending",
     payment_status |-> "pending", payment_reference |-> NoRef,
     total_amount |-> 0, paid_amount |-> 0, items_count |-> 0, is_paid |-> FALSE,
     paid_at |-> NoTime, shipped_at |-> NoTime, completed_at |-> NoTime]

NoPayment ==
    [reference |-> NoRef, order |-> 0, user |-> "none", amount |-> 0,
     status |-> "pending", authorization_url |-> FALSE, paid_at |-> NoTime]

\* a slot with no request in it
Idle ==
    [kind |-> "none", pc |-> "idle", user |-> "none", oid |-> 0, pid |-> 0,
     ref |-> NoRef, food |-> "none", ord |-> NoOrder, pay |-> NoPayment,
     item |-> NoLine, total |-> 0, new |-> "none", gw |-> FALSE]

\* a response: the handler that returned and its outcome
Response(kind, res) == [kind |-> kind, res |-> res]

OrderIds == DOMAIN orders
PaymentIds == DOMAIN payments

RECURSIVE SumOver(_, _)
SumOver(S, f) ==
    IF S = {} THEN 0
    ELSE LET x == CHOOSE y \in S : TRUE IN f[x] + SumOver(S \ {x}, f)

\* ------------------------------------------------------------ menu, cart
\* CartItem.unit_price: the food's current price
unit_price(u, f) == price[f]

\* CartItem.total_price
total_price(u, f) == cartItems[u][f].quantity * unit_price(u, f)

\* cart.items.all(): the foods that have a line in the user's cart
CartLines(u) == {f \in Foods : cartItems[u][f].quantity > 0}

\* Cart.subtotal
subtotal(u) == SumOver(CartLines(u), [f \in Foods |-> total_price(u, f)])

\* Cart.total
total(u) == subtotal(u)

\* Cart.total_items
total_items(u) == SumOver(CartLines(u), [f \in Foods |-> cartItems[u][f].quantity])

\* CartItem.save: the snapshot is taken when the row has none
CartItemSave(line, f) ==
    IF line.price_snapshot = 0 THEN [line EXCEPT !.price_snapshot = price[f]] ELSE line

\* the handler returns: its slot is free again
Respond(r, kind, res) ==
    /\ req' = [req EXCEPT ![r] = Idle]
    /\ resp' = Response(kind, res)

\* a free worker accepts a request; the workers are interchangeable, so it is
\* the first free one
Start(r) ==
    /\ req[r].pc = "idle"
    /\ \A s \in Reqs : s < r => req[s].pc # "idle"
    /\ quota > 0
    /\ quota' = quota - 1

\* the request in slot r is at statement pc
At(r, pc) ==
    /\ req[r].pc = pc
    /\ UNCHANGED quota

\* the handler goes on to its next statement
Continue(r, locals) ==
    /\ req' = [req EXCEPT ![r] = locals]
    /\ UNCHANGED resp

Init ==
    /\ price \in [Foods -> Prices]
    /\ cartExists = [u \in Users |-> FALSE]
    /\ cartItems = [u \in Users |-> [f \in Foods |-> NoLine]]
    /\ orders = <<>>
    /\ orderItems = {}
    /\ history = <<>>
    /\ payments = <<>>
    /\ now = 1
    /\ req = [r \in Reqs |-> Idle]
    /\ resp = Response("none", "none")
    /\ quota = MaxCartRequests

\* FoodUpdateView: an admin changes a food's price
FoodUpdate(f, p) ==
    /\ price[f] # p
    /\ quota > 0
    /\ quota' = quota - 1
    /\ price' = [price EXCEPT ![f] = p]
    /\ UNCHANGED <<cartExists, cartItems, orders, orderItems, history, payments, now, req, resp>>

\* AddToCartView.post: get_or_create of the cart and of the line; a new line is
\* stored at once, an existing one is loaded and saved in a second statement
AddToCart(r, u, f, q) ==
    /\ Start(r)
    /\ cartItems[u][f].quantity + q <= MaxQty
    /\ cartExists' = [cartExists EXCEPT ![u] = TRUE]
    /\ IF cartItems[u][f].quantity = 0
       THEN /\ cartItems' = [cartItems EXCEPT ![u][f] =
                                CartItemSave([quantity |-> q, price_snapshot |-> 0], f)]
            /\ Respond(r, "add", "added")
       ELSE /\ Continue(r, [Idle EXCEPT !.kind = "add", !.pc = "add_save",
                                 !.user = u, !.food = f,
                                 !.item = [cartItems[u][f] EXCEPT !.quantity = @ + q]])
            /\ UNCHANGED cartItems
    /\ UNCHANGED <<price, orders, orderItems, history, payments, now>>

\* cart_item.save() of AddToCartView.post
AddToCartSave(r) ==
    /\ At(r, "add_save")
    /\ cartItems' = [cartItems EXCEPT ![req[r].user][req[r].food] =
                        CartItemSave(req[r].item, req[r].food)]
    /\ Respond(r, "add", "updated")
    /\ UNCHANGED <<price, cartExists, orders, orderItems, history, payments, now>>

\* RemoveCartItemView.delete
RemoveCartItem(r, u, f) ==
    /\ Start(r)
    /\ cartExists[u]
    /\ cartItems[u][f].quantity > 0
    /\ cartItems' = [cartItems EXCEPT ![u][f] = NoLine]
    /\ Respond(r, "remove", "removed")
    /\ UNCHANGED <<price, cartExists, orders, orderItems, history, payments, now>>

\* ------------------------------------------------------------- checkout
\* CheckoutRead without the test for an empty cart
CheckoutReadNoEmptyTest(r, u) ==
    /\ Start(r)
    /\ IF ~cartExists[u] THEN Respond(r, "checkout", "no_active_cart")
       ELSE Continue(r, [Idle EXCEPT !.kind = "checkout", !.pc = "co_create",
                              !.user = u, !.total = total(u)])
    /\ UNCHANGED <<price, cartExists, cartItems, orders, orderItems, history, payments, now>>

\* CreateOrderSerializer.create, up to the computation of total_amount
CheckoutRead(r, u) ==
    /\ Start(r)
    /\ IF ~cartExists[u] THEN Respond(r, "checkout", "no_active_cart")
       ELSE IF Cardinality(CartLines(u)) = 0 THEN Respond(r, "checkout", "cart_empty")
       ELSE Continue(r, [Idle EXCEPT !.kind = "checkout", !.pc = "co_create",
                              !.user = u, !.total = total(u)])
    /\ UNCHANGED <<price, cartExists, cartItems, orders, orderItems, history, payments, now>>

\* Order.save / Order.generate_order_number: the number is drawn at random; the
\* column is unique, so a number already in use makes the INSERT fail
NumberTaken(n) == \E o \in OrderIds : orders[o].order_number = n

\* NewOrder with total_amount and items_count exchanged
NewOrderSwapped(u, n, amount, count) ==
    [NoOrder EXCEPT !.user = u, !.order_number = n,
                    !.total_amount = count, !.items_count = amount]

\* the row Order.objects.create(...) inserts
NewOrder(u, n, amount, count) ==
    [NoOrder EXCEPT !.user = u, !.order_number = n,
                    !.total_amount = amount, !.items_count = count]

\* Order.objects.create(...) of CreateOrderSerializer.create
CheckoutCreate(r, n) ==
    /\ At(r, "co_create")
    /\ IF NumberTaken(n)
       THEN /\ Respond(r, "checkout", "integrity_error")
            /\ UNCHANGED orders
       ELSE /\ orders' = Append(orders,
                            NewOrder(req[r].user, n, req[r].total, total_items(req[r].user)))
            /\ Continue(r, [req[r] EXCEPT !.pc = "co_items", !.oid = Len(orders) + 1])
    /\ UNCHANGED <<price, cartExists, cartItems, orderItems, history, payments, now>>

\* the OrderItem built from one cart line
OrderItemOf(o, u, f) ==
    [order |-> o, food |-> f, food_price |-> price[f], quantity |-> cartItems[u][f].quantity]

\* OrderItem.objects.bulk_create(order_items)
CheckoutItems(r) ==
    /\ At(r, "co_items")
    /\ orderItems' = orderItems \cup
                        {OrderItemOf(req[r].oid, req[r].user, f) : f \in CartLines(req[r].user)}
    /\ Continue(r, [req[r] EXCEPT !.pc = "co_clear"])
    /\ UNCHANGED <<price, cartExists, cartItems, orders, history, payments, now>>

\* cart.items.all().delete()
CheckoutClear(r) ==
    /\ At(r, "co_clear")
    /\ cartItems' = [cartItems EXCEPT ![req[r].user] = [f \in Foods |-> NoLine]]
    /\ Respond(r, "checkout", "created")
    /\ UNCHANGED <<price, cartExists, orders, orderItems, history, payments, now>>

\* a request dies between two statements: what it has written stays written
Abort(r) ==
    /\ req[r].pc # "idle"
    /\ UNCHANGED quota
    /\ Respond(r, req[r].kind, "server_error")
    /\ UNCHANGED <<price, cartExists, cartItems, orders, orderItems, history, payments, now>>

NextCart ==
    \/ \E f \in Foods, p \in Prices : FoodUpdate(f, p)
    \/ \E r \in Reqs, u \in Shoppers, f \in Foods, q \in 1..MaxQty : AddToCart(r, u, f, q)
    \/ \E r \in Reqs : AddToCartSave(r)
    \/ \E r \in Reqs, u \in Shoppers, f \in Foods : RemoveCartItem(r, u, f)
    \/ \E r \in Reqs, u \in Users : CheckoutRead(r, u)
    \/ \E r \in Reqs, n \in OrderNumbers : CheckoutCreate(r, n)
    \/ \E r \in Reqs : CheckoutItems(r)
    \/ \E r \in Reqs : CheckoutClear(r)
    \/ \E r \in Reqs : Abort(r)

SpecCart == Init /\ [][NextCart]_vars


\* ------------------------------------------------------ orders, payments
\* can_be_cancelled without the is_paid test
can_be_cancelled_unpaid_ignored(ord) == ord.status = "pending"

\* Order.can_be_cancelled
can_be_cancelled(ord) == ord.status = "pending" /\ ~ord.is_paid

\* mark_as_paid that also moves the order on in the delivery workflow
mark_as_paid_and_shipped(ord, payment_reference, t) ==
    [ord EXCEPT !.payment_status = "paid",
                !.is_paid = TRUE,
                !.paid_amount = ord.total_amount,
                !.paid_at = t,
                !.status = "shipped",
                !.payment_reference = IF payment_reference # NoRef
                                      THEN payment_reference ELSE @]

\* mark_as_paid with the amount assignment turned round
mark_as_paid_amount_swapped(ord, payment_reference, t) ==
    [ord EXCEPT !.payment_status = "paid",
                !.is_paid = TRUE,
                !.total_amount = ord.paid_amount,
                !.paid_at = t,
                !.payment_reference = IF payment_reference # NoRef
                                      THEN payment_reference ELSE @]

\* Order.mark_as_paid, up to self.save(): the instance it is called on, changed
mark_as_paid(ord, payment_reference, t) ==
    [ord EXCEPT !.payment_status = "paid",
                !.is_paid = TRUE,
                !.paid_amount = ord.total_amount,
                !.paid_at = t,
                !.payment_reference = IF payment_reference # NoRef
                                      THEN payment_reference ELSE @]

\* Order.update_status, up to self.save()
update_status(ord, new_status, t) ==
    [ord EXCEPT !.status = new_status,
                !.shipped_at = IF new_status = "shipped" /\ ord.status # "shipped"
                               THEN t ELSE @,
                !.completed_at = IF ~(new_status = "shipped" /\ ord.status # "shipped")
                                    /\ new_status = "completed" /\ ord.status # "completed"
                                 THEN t ELSE @]

\* whether Order.update_status reads the clock
Stamps(ord, new_status) ==
    \/ new_status = "shipped" /\ ord.status # "shipped"
    \/ new_status = "completed" /\ ord.status # "completed"

\* Payment.is_successful
is_successful(pay) == pay.status = "successful"

\* Payment.mark_as_successful, up to self.save()
mark_as_successful(pay, t) == [pay EXCEPT !.status = "successful", !.paid_at = t]

\* Payment.mark_as_failed, up to self.save()
mark_as_failed(pay) == [pay EXCEPT !.status = "failed"]

\* an OrderStatusHistory row
HistoryEntry(o, old, new, by, notes) ==
    [order |-> o, old_status |-> old, new_status |-> new, changed_by |-> by, notes |-> notes]

\* Payment.objects.filter(reference=reference)
PaymentsWithRef(ref) == {p \in PaymentIds : payments[p].reference = ref}

\* Order.objects.filter(payment_reference=reference)
OrdersWithRef(ref) == {o \in OrderIds : orders[o].payment_reference = ref}

\* InitiateRefusal without the test for a cancelled order
InitiateRefusal_cancelled_allowed(u, o) ==
    IF o \notin OrderIds THEN "validation_error"
    ELSE IF orders[o].is_paid THEN "validation_error"
    ELSE IF orders[o].user # u THEN "not_found"
    ELSE "none"

\* InitializePaymentSerializer.validate_order_id / PaymentInitSerializer.validate_order_id,
\* then get_object_or_404(Order, id=order_id, user=request.user) and the is_paid test
InitiateRefusal(u, o) ==
    IF o \notin OrderIds THEN "validation_error"
    ELSE IF orders[o].is_paid THEN "validation_error"
    ELSE IF orders[o].status = "cancelled" THEN "validation_error"
    ELSE IF orders[o].user # u THEN "not_found"
    ELSE "none"

\* what the gateway answers to initialize and to verify
InitializeOutcomes == {"ok", "declined", "network_error", "exception"}
VerifyOutcomes == {"success", "failed", "network_error", "exception"}

\* InitializePaymentView.post up to the reference: the order is validated and
\* loaded and references are drawn until one is free (the while loop spins when
\* none is)
InitializeRead(r, u, o) ==
    /\ Start(r)
    /\ IF InitiateRefusal(u, o) # "none"
       THEN Respond(r, "initialize", InitiateRefusal(u, o))
       ELSE Continue(r, [Idle EXCEPT !.kind = "initialize", !.pc = "in_ref",
                              !.user = u, !.oid = o, !.ord = orders[o]])
    /\ UNCHANGED <<price, cartExists, cartItems, orders, orderItems, history, payments, now>>

\* the while loop of InitializePaymentView.post ends with a reference that no
\* Payment carries at that moment
InitializeReference(r, ref) ==
    /\ At(r, "in_ref")
    /\ PaymentsWithRef(ref) = {}
    /\ Continue(r, [req[r] EXCEPT !.pc = "in_create", !.ref = ref])
    /\ UNCHANGED <<price, cartExists, cartItems, orders, orderItems, history, payments, now>>

\* InitializeCreate on a reference column that is not unique
InitializeCreateNotUnique(r) ==
    /\ At(r, "in_create")
    /\ LET pay == [NoPayment EXCEPT !.reference = req[r].ref, !.order = req[r].oid,
                                    !.user = req[r].user,
                                    !.amount = req[r].ord.total_amount]
       IN /\ payments' = Append(payments, pay)
          /\ Continue(r, [req[r] EXCEPT !.pc = "in_gateway", !.pay = pay,
                                         !.pid = Len(payments) + 1])
    /\ UNCHANGED <<price, cartExists, cartItems, orders, orderItems, history, now>>

\* Payment.objects.create(...): the reference column is unique
InitializeCreate(r) ==
    /\ At(r, "in_create")
    /\ IF PaymentsWithRef(req[r].ref) # {}
       THEN /\ Respond(r, "initialize", "server_error")
            /\ UNCHANGED payments
       ELSE LET pay == [NoPayment EXCEPT !.reference = req[r].ref, !.order = req[r].oid,
                                         !.user = req[r].user,
                                         !.amount = req[r].ord.total_amount]
            IN /\ payments' = Append(payments, pay)
               /\ Continue(r, [req[r] EXCEPT !.pc = "in_gateway", !.pay = pay,
                                              !.pid = Len(payments) + 1])
    /\ UNCHANGED <<price, cartExists, cartItems, orders, orderItems, history, now>>

\* InitializeGateway that deletes the Payment when the gateway fails
InitializeGatewayFailureDeleted(r, outcome) ==
    /\ At(r, "in_gateway")
    /\ IF outcome = "ok"
       THEN /\ payments' = [payments EXCEPT ![req[r].pid] =
                               [req[r].pay EXCEPT !.authorization_url = TRUE]]
            /\ Respond(r, "initialize", "initialized")
       ELSE /\ payments' = SelectSeq(payments, LAMBDA pay : pay.reference # req[r].ref)
            /\ Respond(r, "initialize", IF outcome = "exception" THEN "server_error"
                                        ELSE "gateway_failed")
    /\ UNCHANGED <<price, cartExists, cartItems, orders, orderItems, history, now>>

\* InitializeGateway that leaves the Payment as it is when the gateway fails
InitializeGatewayFailureUnrecorded(r, outcome) ==
    /\ At(r, "in_gateway")
    /\ IF outcome = "ok"
       THEN /\ payments' = [payments EXCEPT ![req[r].pid] =
                               [req[r].pay EXCEPT !.authorization_url = TRUE]]
            /\ Respond(r, "initialize", "initialized")
       ELSE /\ UNCHANGED payments
            /\ Respond(r, "initialize", IF outcome = "exception" THEN "server_error"
                                        ELSE "gateway_failed")
    /\ UNCHANGED <<price, cartExists, cartItems, orders, orderItems, history, now>>

\* the gateway call of InitializePaymentView.post and the payment.save() that
\* follows it (PaystackService.initialize_transaction turns a network error
\* into success = False; any other exception is caught by the view, which
\* marks the payment failed and answers 500)
InitializeGateway(r, outcome) ==
    /\ At(r, "in_gateway")
    /\ IF outcome = "ok"
       THEN /\ payments' = [payments EXCEPT ![req[r].pid] =
                               [req[r].pay EXCEPT !.authorization_url = TRUE]]
            /\ Respond(r, "initialize", "initialized")
       ELSE /\ payments' = [payments EXCEPT ![req[r].pid] = mark_as_failed(req[r].pay)]
            /\ Respond(r, "initialize", IF outcome = "exception" THEN "server_error"
                                        ELSE "gateway_failed")
    /\ UNCHANGED <<price, cartExists, cartItems, orders, orderItems, history, now>>

\* InitiatePaymentView.post of the orders app, up to order.save()
MockInitiateRead(r, u, o, ref) ==
    /\ Start(r)
    /\ IF InitiateRefusal(u, o) # "none"
       THEN Respond(r, "initiate", InitiateRefusal(u, o))
       ELSE Continue(r, [Idle EXCEPT !.kind = "initiate", !.pc = "mi_save",
                              !.user = u, !.oid = o, !.ref = ref,
                              !.ord = [orders[o] EXCEPT !.payment_reference = ref]])
    /\ UNCHANGED <<price, cartExists, cartItems, orders, orderItems, history, payments, now>>

\* order.save() of InitiatePaymentView.post
MockInitiateSave(r) ==
    /\ At(r, "mi_save")
    /\ orders' = [orders EXCEPT ![req[r].oid] = req[r].ord]
    /\ Respond(r, "initiate", "initialized")
    /\ UNCHANGED <<price, cartExists, cartItems, orderItems, history, payments, now>>

\* VerifyRead without the is_successful test
VerifyReadNoCache(r, u, ref) ==
    /\ Start(r)
    /\ LET found == {p \in PaymentsWithRef(ref) : payments[p].user = u}
       IN IF found = {} THEN Respond(r, "verify", "not_found")
          ELSE LET p == CHOOSE x \in found : TRUE
               IN Continue(r, [Idle EXCEPT !.kind = "verify", !.pc = "v_gateway",
                                    !.user = u, !.ref = ref, !.pid = p,
                                    !.pay = payments[p]])
    /\ UNCHANGED <<price, cartExists, cartItems, orders, orderItems, history, payments, now>>

\* VerifyPaymentView.post up to the gateway call: the payment is looked up by
\* reference and user, and a successful one is answered from the row
VerifyRead(r, u, ref) ==
    /\ Start(r)
    /\ LET found == {p \in PaymentsWithRef(ref) : payments[p].user = u}
       IN IF found = {} THEN Respond(r, "verify", "not_found")
          ELSE LET p == CHOOSE x \in found : TRUE
               IN IF is_successful(payments[p])
                  THEN Respond(r, "verify", "already_verified")
                  ELSE Continue(r, [Idle EXCEPT !.kind = "verify", !.pc = "v_gateway",
                                         !.user = u, !.ref = ref, !.pid = p,
                                         !.pay = payments[p]])
    /\ UNCHANGED <<price, cartExists, cartItems, orders, orderItems, history, payments, now>>

\* VerifyGateway that leaves the Payment as it is when the gateway reports a failure
VerifyGatewayFailureUnrecorded(r, outcome) ==
    /\ At(r, "v_gateway")
    /\ IF outcome = "success"
       THEN /\ payments' = [payments EXCEPT ![req[r].pid] = mark_as_successful(req[r].pay, now)]
            /\ now' = now + 1
            /\ Continue(r, [req[r] EXCEPT !.pc = "v_order", !.gw = TRUE,
                                           !.pay = mark_as_successful(req[r].pay, now)])
       ELSE IF outcome = "exception"
       THEN /\ Respond(r, "verify", "server_error")
            /\ UNCHANGED <<payments, now>>
       ELSE /\ Respond(r, "verify", "verification_failed")
            /\ UNCHANGED <<payments, now>>
    /\ UNCHANGED <<price, cartExists, cartItems, orders, orderItems, history>>

\* PaystackService.verify_transaction and the payment.save() that follows it:
\* mark_as_successful on success, mark_as_failed when the gateway reports a
\* failure or cannot be reached; any other exception is answered with a 500
VerifyGateway(r, outcome) ==
    /\ At(r, "v_gateway")
    /\ IF outcome = "success"
       THEN /\ payments' = [payments EXCEPT ![req[r].pid] = mark_as_successful(req[r].pay, now)]
            /\ now' = now + 1
            /\ Continue(r, [req[r] EXCEPT !.pc = "v_order", !.gw = TRUE,
                                           !.pay = mark_as_successful(req[r].pay, now)])
       ELSE IF outcome = "exception"
       THEN /\ Respond(r, "verify", "server_error")
            /\ UNCHANGED <<payments, now>>
       ELSE /\ payments' = [payments EXCEPT ![req[r].pid] = mark_as_failed(req[r].pay)]
            /\ Respond(r, "verify", "verification_failed")
            /\ UNCHANGED now
    /\ UNCHANGED <<price, cartExists, cartItems, orders, orderItems, history>>

\* self.order of Payment.mark_as_successful: the order row is fetched
VerifyLoadOrder(r) ==
    /\ At(r, "v_order")
    /\ Continue(r, [req[r] EXCEPT !.pc = "v_paid", !.oid = req[r].pay.order,
                                   !.ord = orders[req[r].pay.order]])
    /\ UNCHANGED <<price, cartExists, cartItems, orders, orderItems, history, payments, now>>

\* self.order.mark_as_paid(self.reference) of Payment.mark_as_successful
VerifyMarkPaid(r) ==
    /\ At(r, "v_paid")
    /\ orders' = [orders EXCEPT ![req[r].oid] = mark_as_paid(req[r].ord, req[r].pay.reference, now)]
    /\ now' = now + 1
    /\ Respond(r, "verify", "verified")
    /\ UNCHANGED <<price, cartExists, cartItems, orderItems, history, payments>>

\* the x-paystack-signature header of a webhook: the HMAC of the body under the
\* shared secret, another value, or no header at all
Signatures == {"valid", "invalid", "missing"}

\* PaystackWebhookView.verify_signature: without PAYSTACK_WEBHOOK_SECRET in the
\* settings (read at call time) every payload passes; with it the HMAC of the
\* body is compared with the header, and hmac.compare_digest raises TypeError
\* when the header is missing
verify_signature(secret_set, signature) ==
    IF ~secret_set THEN "pass"
    ELSE IF signature = "missing" THEN "type_error"
    ELSE IF signature = "valid" THEN "pass"
    ELSE "reject"

WebhookEvents == {"charge.success", "charge.failed", "other"}

\* WebhookRead that hands every event but charge.success to the failure handler
WebhookReadUnknownAsFailure(r, secret_set, signature, event, ref) ==
    /\ Start(r)
    /\ IF verify_signature(secret_set, signature) = "reject"
       THEN Respond(r, "webhook", "invalid_signature")
       ELSE IF verify_signature(secret_set, signature) = "type_error"
       THEN Respond(r, "webhook", "server_error")
       ELSE IF OrdersWithRef(ref) = {} THEN Respond(r, "webhook", "not_found")
       ELSE IF Cardinality(OrdersWithRef(ref)) > 1 THEN Respond(r, "webhook", "server_error")
       ELSE LET o == CHOOSE x \in OrdersWithRef(ref) : TRUE
            IN Continue(r, [Idle EXCEPT !.kind = "webhook", !.ref = ref, !.oid = o,
                                 !.ord = orders[o], !.new = event,
                                 !.pc = IF event = "charge.success"
                                        THEN "wh_paid" ELSE "wh_failed"])
    /\ UNCHANGED <<price, cartExists, cartItems, orders, orderItems, history, payments, now>>

\* PaystackWebhookView.post up to the order lookup of the event's handler
WebhookRead(r, secret_set, signature, event, ref) ==
    /\ Start(r)
    /\ IF verify_signature(secret_set, signature) = "reject"
       THEN Respond(r, "webhook", "invalid_signature")
       ELSE IF verify_signature(secret_set, signature) = "type_error"
       THEN Respond(r, "webhook", "server_error")
       ELSE IF event \notin {"charge.success", "charge.failed"}
       THEN Respond(r, "webhook", "received")
       ELSE IF OrdersWithRef(ref) = {} THEN Respond(r, "webhook", "not_found")
       ELSE IF Cardinality(OrdersWithRef(ref)) > 1 THEN Respond(r, "webhook", "server_error")
       ELSE LET o == CHOOSE x \in OrdersWithRef(ref) : TRUE
            IN Continue(r, [Idle EXCEPT !.kind = "webhook", !.ref = ref, !.oid = o,
                                 !.ord = orders[o], !.new = event,
                                 !.pc = IF event = "charge.success"
                                        THEN "wh_paid" ELSE "wh_failed"])
    /\ UNCHANGED <<price, cartExists, cartItems, orders, orderItems, history, payments, now>>

\* order.mark_as_paid(payment_reference=reference) of handle_successful_payment
WebhookMarkPaid(r) ==
    /\ At(r, "wh_paid")
    /\ orders' = [orders EXCEPT ![req[r].oid] = mark_as_paid(req[r].ord, req[r].ref, now)]
    /\ now' = now + 1
    /\ Continue(r, [req[r] EXCEPT !.pc = "wh_hist", !.ord = mark_as_paid(req[r].ord, req[r].ref, now)])
    /\ UNCHANGED <<price, cartExists, cartItems, orderItems, history, payments>>

\* order.payment_status = 'failed'; order.save() of handle_failed_payment
WebhookMarkFailed(r) ==
    /\ At(r, "wh_failed")
    /\ orders' = [orders EXCEPT ![req[r].oid] = [req[r].ord EXCEPT !.payment_status = "failed"]]
    /\ Continue(r, [req[r] EXCEPT !.pc = "wh_hist",
                                   !.ord = [req[r].ord EXCEPT !.payment_status = "failed"]])
    /\ UNCHANGED <<price, cartExists, cartItems, orderItems, history, payments, now>>

\* WebhookHistory that records the payment as a step of the delivery workflow
WebhookHistoryAsTransition(r) ==
    /\ At(r, "wh_hist")
    /\ history' = Append(history,
                         HistoryEntry(req[r].oid, req[r].ord.status, "completed",
                                      "system", req[r].new))
    /\ Respond(r, "webhook", IF req[r].new = "charge.success" THEN "processed"
                              ELSE "failure_recorded")
    /\ UNCHANGED <<price, cartExists, cartItems, orders, orderItems, payments, now>>

\* OrderStatusHistory.objects.create(...) of both webhook handlers
WebhookHistory(r) ==
    /\ At(r, "wh_hist")
    /\ history' = Append(history,
                         HistoryEntry(req[r].oid, req[r].ord.status, req[r].ord.status,
                                      "system", req[r].new))
    /\ Respond(r, "webhook", IF req[r].new = "charge.success" THEN "processed"
                              ELSE "failure_recorded")
    /\ UNCHANGED <<price, cartExists, cartItems, orders, orderItems, payments, now>>

\* validate_status without the test for a cancelled order
validate_status_completed_only(ord, value) ==
    IF ord.status = "completed" THEN FALSE
    ELSE TRUE

\* UpdateOrderStatusSerializer.validate_status
validate_status(ord, value) ==
    IF ord.status = "completed" THEN FALSE
    ELSE IF ord.status = "cancelled" THEN FALSE
    ELSE TRUE

\* UpdateOrderStatusView.patch up to serializer.is_valid()
UpdateStatusRead(r, o, value) ==
    /\ Start(r)
    /\ IF o \notin OrderIds THEN Respond(r, "update_status", "not_found")
       ELSE IF ~validate_status(orders[o], value)
       THEN Respond(r, "update_status", "invalid_transition")
       ELSE Continue(r, [Idle EXCEPT !.kind = "update_status", !.pc = "us_hist",
                              !.user = "admin", !.oid = o, !.ord = orders[o], !.new = value])
    /\ UNCHANGED <<price, cartExists, cartItems, orders, orderItems, history, payments, now>>

\* OrderStatusHistory.objects.create(...) of UpdateOrderStatusView.patch
UpdateStatusHistory(r) ==
    /\ At(r, "us_hist")
    /\ history' = Append(history,
                         HistoryEntry(req[r].oid, req[r].ord.status, req[r].new,
                                      "admin", "admin_notes"))
    /\ Continue(r, [req[r] EXCEPT !.pc = "us_save"])
    /\ UNCHANGED <<price, cartExists, cartItems, orders, orderItems, payments, now>>

\* order.update_status(new_status, admin_notes) of UpdateOrderStatusView.patch
UpdateStatusSave(r) ==
    /\ At(r, "us_save")
    /\ orders' = [orders EXCEPT ![req[r].oid] = update_status(req[r].ord, req[r].new, now)]
    /\ now' = IF Stamps(req[r].ord, req[r].new) THEN now + 1 ELSE now
    /\ Respond(r, "update_status", "status_updated")
    /\ UNCHANGED <<price, cartExists, cartItems, orderItems, history, payments>>

\* CancelOrderView.post up to the can_be_cancelled test
CancelRead(r, u, o) ==
    /\ Start(r)
    /\ IF o \notin OrderIds \/ (o \in OrderIds /\ orders[o].user # u)
       THEN Respond(r, "cancel", "not_found")
       ELSE IF ~can_be_cancelled(orders[o]) THEN Respond(r, "cancel", "not_cancellable")
       ELSE Continue(r, [Idle EXCEPT !.kind = "cancel", !.pc = "ca_hist",
                              !.user = u, !.oid = o, !.ord = orders[o], !.new = "cancelled"])
    /\ UNCHANGED <<price, cartExists, cartItems, orders, orderItems, history, payments, now>>

\* OrderStatusHistory.objects.create(...) of CancelOrderView.post
CancelHistory(r) ==
    /\ At(r, "ca_hist")
    /\ history' = Append(history,
                         HistoryEntry(req[r].oid, req[r].ord.status, "cancelled",
                                      req[r].user, "Cancelled by customer"))
    /\ Continue(r, [req[r] EXCEPT !.pc = "ca_save"])
    /\ UNCHANGED <<price, cartExists, cartItems, orders, orderItems, payments, now>>

\* order.update_status('cancelled', ...) of CancelOrderView.post
CancelSave(r) ==
    /\ At(r, "ca_save")
    /\ orders' = [orders EXCEPT ![req[r].oid] = update_status(req[r].ord, "cancelled", now)]
    /\ Respond(r, "cancel", "cancelled")
    /\ UNCHANGED <<price, cartExists, cartItems, orderItems, history, payments, now>>

\* the store after one checkout (a state SpecCart reaches): user u1 holds one
\* unpaid, pending order of one line, and the cart it came from is empty
StoreAfterCheckout ==
    /\ price = [f \in Foods |-> MaxPrice]
    /\ cartExists = [u \in Users |-> u \in Shoppers]
    /\ cartItems = [u \in Users |-> [f \in Foods |-> NoLine]]
    /\ orders = <<NewOrder("u1", 1, MaxPrice, 1)>>
    /\ orderItems = {[order |-> 1, food |-> "f1", food_price |-> MaxPrice, quantity |-> 1]}
    /\ history = <<>>
    /\ payments = <<>>
    /\ now = 1
    /\ req = [r \in Reqs |-> Idle]
    /\ resp = Response("checkout", "created")

InitPay ==
    /\ StoreAfterCheckout
    /\ quota = MaxPayRequests

NextPay ==
    \/ \E r \in Reqs, u \in Users, o \in OrderIds : InitializeRead(r, u, o)
    \/ \E r \in Reqs, ref \in PayRefs : InitializeReference(r, ref)
    \/ \E r \in Reqs : InitializeCreate(r)
    \/ \E r \in Reqs, outcome \in InitializeOutcomes : InitializeGateway(r, outcome)
    \/ \E r \in Reqs, u \in Users, o \in OrderIds, ref \in MockRefs : MockInitiateRead(r, u, o, ref)
    \/ \E r \in Reqs : MockInitiateSave(r)
    \/ \E r \in Reqs, u \in Users, ref \in PayRefs : VerifyRead(r, u, ref)
    \/ \E r \in Reqs, outcome \in VerifyOutcomes : VerifyGateway(r, outcome)
    \/ \E r \in Reqs : VerifyLoadOrder(r)
    \/ \E r \in Reqs : VerifyMarkPaid(r)
    \/ \E r \in Reqs, secret_set \in BOOLEAN, sig \in Signatures, e \in WebhookEvents,
          ref \in Refs :
          WebhookRead(r, secret_set, sig, e, ref)
    \/ \E r \in Reqs : WebhookMarkPaid(r)
    \/ \E r \in Reqs : WebhookMarkFailed(r)
    \/ \E r \in Reqs : WebhookHistory(r)
    \/ \E r \in Reqs, o \in OrderIds, value \in ORDER_STATUS : UpdateStatusRead(r, o, value)
    \/ \E r \in Reqs : UpdateStatusHistory(r)
    \/ \E r \in Reqs : UpdateStatusSave(r)
    \/ \E r \in Reqs, u \in Users, o \in OrderIds : CancelRead(r, u, o)
    \/ \E r \in Reqs : CancelHistory(r)
    \/ \E r \in Reqs : CancelSave(r)
    \/ \E r \in Reqs : Abort(r)

SpecPay == InitPay /\ [][NextPay]_vars

\* the store after one checkout and one initiate (a state SpecPay reaches):
\* the order of StoreAfterCheckout with one pending Payment that has its
\* authorization URL
StoreAfterInitiate ==
    /\ price = [f \in Foods |-> MaxPrice]
    /\ cartExists = [u \in Users |-> u \in Shoppers]
    /\ cartItems = [u \in Users |-> [f \in Foods |-> NoLine]]
    /\ orders = <<NewOrder("u1", 1, MaxPrice, 1)>>
    /\ orderItems = {[order |-> 1, food |-> "f1", food_price |-> MaxPrice, quantity |-> 1]}
    /\ history = <<>>
    /\ payments = <<[NoPayment EXCEPT !.reference = "p1", !.order = 1, !.user = "u1",
                                      !.amount = MaxPrice, !.authorization_url = TRUE]>>
    /\ now = 1
    /\ req = [r \in Reqs |-> Idle]
    /\ resp = Response("initialize", "initialized")

InitRetry ==
    /\ StoreAfterInitiate
    /\ quota = MaxPayRequests

\* the order and payment operations on an order that has a payment attempt
SpecRetry == InitRetry /\ [][NextPay]_vars

\* the next statement of the handler running in slot r
HandlerStep(r) ==
    \/ \E ref \in PayRefs : InitializeReference(r, ref)
    \/ InitializeCreate(r)
    \/ \E outcome \in InitializeOutcomes : InitializeGateway(r, outcome)
    \/ MockInitiateSave(r)
    \/ \E outcome \in VerifyOutcomes : VerifyGateway(r, outcome)
    \/ VerifyLoadOrder(r)
    \/ VerifyMarkPaid(r)
    \/ WebhookMarkPaid(r)
    \/ WebhookMarkFailed(r)
    \/ WebhookHistory(r)
    \/ UpdateStatusHistory(r)
    \/ UpdateStatusSave(r)
    \/ CancelHistory(r)
    \/ CancelSave(r)

\* the order and payment operations when every worker keeps running its
\* handler: a handler that can take its next statement takes it
SpecPayLive == SpecPay /\ \A r \in Reqs : WF_vars(HandlerStep(r))

\* every operation of the shop on the store one checkout has left: the menu and
\* cart operations together with the order and payment operations
NextShop ==
    \/ NextCart
    \/ NextPay

SpecShop == InitPay /\ [][NextShop]_vars

\* ------------------------------------------------------- payment: claims
\* C1: a Payment whose status is successful has a linked Order with is_paid =
\* TRUE, in every state in which no verify handler is between the two writes,
\* also after a step of verify has failed part-way.
C1_SuccessfulPaymentHasPaidOrder ==
    \A p \in PaymentIds :
        ( /\ payments[p].status = "successful"
          /\ \A r \in Reqs : ~(req[r].kind = "verify" /\ req[r].pid = p) )
            => orders[payments[p].order].is_paid

\* C2: the success side effects are applied once: whenever verify or the
\* webhook marks an order paid, the order was unpaid until then, so that paid_at
\* is stamped exactly once and the order turns from unpaid to paid exactly once.
C2_PaidExactlyOnce ==
    [][\A r \in Reqs :
        (VerifyMarkPaid(r) \/ WebhookMarkPaid(r)) => ~orders[req[r].oid].is_paid
      ]_vars

\* C3: a verify call for a Payment that is already successful returns success
\* without reaching the gateway call and leaves the Payment rows, the Order
\* rows, the status history and the clock as they were.
C3_VerifyIdempotent ==
    [][\A r \in Reqs, u \in Users, ref \in PayRefs :
        ( /\ VerifyRead(r, u, ref)
          /\ \E p \in PaymentsWithRef(ref) :
                payments[p].user = u /\ payments[p].status = "successful" )
            => /\ resp' = Response("verify", "already_verified")
               /\ req'[r].pc = "idle"
               /\ UNCHANGED <<payments, orders, history, now>>
      ]_vars

\* a second verify has been answered from the row of a successful payment whose
\* order is paid
C3_Witness ==
    /\ resp = Response("verify", "already_verified")
    /\ \E p \in PaymentIds :
          /\ payments[p].status = "successful"
          /\ payments[p].paid_at # NoTime
          /\ orders[payments[p].order].is_paid
          /\ orders[payments[p].order].paid_at # NoTime

\* the transition table of the order status
TransitionTable ==
    {<<"pending", "shipped">>, <<"pending", "cancelled">>,
     <<"shipped", "completed">>, <<"shipped", "cancelled">>}

\* C4: every status change performed by update_status follows the transition
\* table pending -> {shipped, cancelled}, shipped -> {completed, cancelled}.
C4_TransitionsFollowTable ==
    [][\A r \in Reqs :
        UpdateStatusSave(r) => <<req[r].ord.status, req[r].new>> \in TransitionTable
      ]_vars

\* C5: a status update requested on an order whose status is completed or
\* cancelled fails, and the order rows, the status history and the clock are
\* unchanged.
C5_TerminalUpdateRejected ==
    [][\A r \in Reqs, o \in OrderIds, value \in ORDER_STATUS :
        (UpdateStatusRead(r, o, value) /\ orders[o].status \in {"completed", "cancelled"})
            => /\ resp' = Response("update_status", "invalid_transition")
               /\ req'[r].pc = "idle"
               /\ UNCHANGED <<orders, history, now>>
      ]_vars

\* an update of a completed order has been refused, and the history holds only
\* the entry of the update that completed it
C5_Witness ==
    /\ resp = Response("update_status", "invalid_transition")
    /\ orders[1].status = "completed"
    /\ Len(history) = 1

\* an update of a cancelled order has been refused
C5_WitnessCancelled ==
    /\ resp = Response("update_status", "invalid_transition")
    /\ orders[1].status = "cancelled"

\* C6: cancel goes through only for an order it read as pending and unpaid; for
\* every other combination of status and is_paid the handler fails and leaves the
\* order rows and the status history unchanged.
C6_CancelOnlyPendingUnpaid ==
    [][\A r \in Reqs :
        /\ \A u \in Users, o \in OrderIds :
              ( /\ CancelRead(r, u, o)
                /\ orders[o].user = u
                /\ ~(orders[o].status = "pending" /\ ~orders[o].is_paid) )
                  => /\ resp' = Response("cancel", "not_cancellable")
                     /\ req'[r].pc = "idle"
                     /\ UNCHANGED <<orders, history>>
        /\ (CancelHistory(r) \/ CancelSave(r))
              => (req[r].ord.status = "pending" /\ ~req[r].ord.is_paid)
      ]_vars

\* the cancel of a paid, pending order has been refused
C6_Witness ==
    /\ resp = Response("cancel", "not_cancellable")
    /\ orders[1].status = "pending"
    /\ orders[1].is_paid
    /\ history = <<>>

\* ------------------------------------------------------ checkout: claims
\* C7: for every non-empty cart, checkout produces an Order whose total_amount is
\* the cart's subtotal as it stood when the checkout began, and the statement that
\* ends a successful checkout leaves the cart with zero lines.
C7_TotalIsSubtotalAndCartEmptied ==
    [][\A r \in Reqs :
        /\ (req[r].pc = "idle" /\ req'[r].pc = "co_create")
              => req'[r].total = subtotal(req'[r].user)
        /\ (req[r].pc = "co_create" /\ req'[r].pc = "co_items")
              => /\ Len(orders') = Len(orders) + 1
                 /\ req'[r].oid = Len(orders')
                 /\ orders'[req'[r].oid].total_amount = req[r].total
        /\ (req[r].pc = "co_clear" /\ req'[r].pc = "idle" /\ resp'.res = "created")
              => /\ \A f \in Foods : cartItems'[req[r].user][f] = NoLine
                 /\ orders'[req[r].oid].total_amount = req[r].total
      ]_vars

\* a checkout has returned an order with a positive total and the cart is empty
C7_Witness ==
    /\ resp = Response("checkout", "created")
    /\ \E o \in OrderIds : orders[o].total_amount > 1
    /\ \A u \in Users : CartLines(u) = {}

\* the sum over the cart's lines of quantity times the price snapshot taken at add-time
SnapshotSubtotal(u) ==
    SumOver(CartLines(u),
            [f \in Foods |-> cartItems[u][f].quantity * cartItems[u][f].price_snapshot])

\* C8: checkout computes total_amount as the sum over the cart lines of quantity
\* times the unit-price snapshot taken at add-time, so that a later change of a
\* food's price does not change the order total.
C8_TotalFromSnapshots ==
    [][\A r \in Reqs :
        (req[r].pc = "idle" /\ req'[r].pc = "co_create")
            => req'[r].total = SnapshotSubtotal(req'[r].user)
      ]_vars

\* C9: checkout fails when the user has no active cart and when the cart has no
\* lines; the failing handler creates no Order, no OrderItem, and leaves the cart
\* as it was.
C9_EmptyCartFails ==
    [][\A r \in Reqs, u \in Users :
        (CheckoutRead(r, u) /\ (~cartExists[u] \/ CartLines(u) = {}))
            => /\ resp'.kind = "checkout"
               /\ resp'.res \in {"no_active_cart", "cart_empty"}
               /\ req'[r].pc = "idle"
               /\ UNCHANGED <<orders, orderItems, cartExists, cartItems>>
      ]_vars

\* a checkout of an existing, empty cart has been refused and no order exists
C9_Witness ==
    /\ resp = Response("checkout", "cart_empty")
    /\ cartExists["u1"]
    /\ orders = <<>>
    /\ orderItems = {}

\* a checkout by a user without a cart has been refused
C9_WitnessNoCart ==
    /\ resp = Response("checkout", "no_active_cart")
    /\ orders = <<>>

\* C10: order creation, the copy of the cart lines and the emptying of the cart
\* are one atomic step: an Order that no checkout is still writing has its order
\* lines, also after a write has failed.
C10_OrderHasItsLines ==
    \A o \in OrderIds :
        (\A r \in Reqs : ~(req[r].kind = "checkout" /\ req[r].oid = o /\ req[r].pc = "co_items"))
            => \E it \in orderItems : it.order = o

\* ---------------------------------------------------------- order: frame
\* C11: the total_amount of an existing order never changes: no food price
\* change, cart operation, checkout, status update, cancel, payment initiation,
\* verification or webhook alters it.
C11_TotalAmountFixed ==
    [][\A o \in OrderIds : orders'[o].total_amount = orders[o].total_amount]_vars

\* an order has been paid and its food's price has changed since it was created
C11_Witness ==
    /\ orders[1].is_paid
    /\ price["f1"] # orders[1].total_amount
    /\ orders[1].total_amount = MaxPrice

\* C12: mark_as_paid sets payment_status = paid, is_paid, paid_amount =
\* total_amount, paid_at and the payment reference, and does not change the
\* delivery status: the row it saves carries the status of the order it was
\* called on, so a pending order that nothing else has written is still pending
\* after it is paid.
C12_MarkAsPaidFrame ==
    [][\A r \in Reqs :
          (VerifyMarkPaid(r) \/ WebhookMarkPaid(r)) =>
              LET o == req[r].oid
              IN /\ orders'[o].payment_status = "paid"
                 /\ orders'[o].is_paid
                 /\ orders'[o].paid_amount = orders'[o].total_amount
                 /\ orders'[o].paid_at = now
                 /\ orders'[o].paid_at # NoTime
                 /\ orders'[o].payment_reference = req[r].ref
                 /\ orders'[o].status = req[r].ord.status
                 /\ orders'[o].shipped_at = req[r].ord.shipped_at
                 /\ orders'[o].completed_at = req[r].ord.completed_at
                 /\ (orders[o].status = req[r].ord.status
                        => orders'[o].status = orders[o].status)]_vars

\* verify has paid an order that was pending, and it is still pending
C12_Witness ==
    /\ resp = Response("verify", "verified")
    /\ orders[1].is_paid
    /\ orders[1].payment_status = "paid"
    /\ orders[1].status = "pending"
    /\ \A r \in Reqs : req[r].pc = "idle"

\* a webhook has paid an order that had been shipped, and it is still shipped
C12_WitnessShipped ==
    /\ resp = Response("webhook", "processed")
    /\ orders[1].is_paid
    /\ orders[1].status = "shipped"

\* ------------------------------------------------------- initiate: claims
\* the precondition of initiate: the order is the user's, unpaid, not cancelled
Payable(u, o) ==
    /\ o \in OrderIds
    /\ orders[o].user = u
    /\ ~orders[o].is_paid
    /\ orders[o].status # "cancelled"

\* C13: initiate creates a Payment only for an order that belongs to the
\* requesting user, is not paid and is not cancelled; when one of these fails,
\* initiate returns an error, creates no Payment, does not go on to the gateway
\* and leaves the order unchanged.
C13_InitiateRefusedWithoutEffect ==
    [][\A r \in Reqs :
          /\ \A u \in Users, o \in OrderIds :
                ( /\ \/ InitializeRead(r, u, o)
                     \/ \E ref \in MockRefs : MockInitiateRead(r, u, o, ref)
                  /\ ~Payable(u, o) )
                    => /\ resp'.res \in {"validation_error", "not_found"}
                       /\ req'[r].pc = "idle"
                       /\ payments' = payments
                       /\ orders' = orders
                       /\ history' = history
          /\ (InitializeCreate(r) /\ payments' # payments)
                => /\ req[r].ord.user = req[r].user
                   /\ ~req[r].ord.is_paid
                   /\ req[r].ord.status # "cancelled"
                   /\ payments'[Len(payments')].order = req[r].oid
                   /\ payments'[Len(payments')].user = req[r].user]_vars

\* initiate has been refused for a cancelled order, and no Payment exists
C13_Witness ==
    /\ resp = Response("initialize", "validation_error")
    /\ orders[1].status = "cancelled"
    /\ ~orders[1].is_paid
    /\ payments = <<>>

\* initiate has been refused for a paid order
C13_WitnessPaid ==
    /\ resp.kind \in {"initialize", "initiate"}
    /\ resp.res = "validation_error"
    /\ orders[1].is_paid
    /\ orders[1].status # "cancelled"

\* initiate by another user has been answered with not found
C13_WitnessOtherUser ==
    /\ resp = Response("initialize", "not_found")
    /\ payments = <<>>

\* C14: when the gateway's initialize call fails (error reply, network error,
\* timeout or exception), the Payment row initiate created stays, with status
\* failed, the caller gets an error and the Order is unchanged; when it
\* succeeds, the Payment is pending with the authorization URL stored.
C14_InitializeGatewayOutcome ==
    [][\A r \in Reqs, outcome \in InitializeOutcomes :
          InitializeGateway(r, outcome) =>
              /\ Len(payments') = Len(payments)
              /\ orders' = orders
              /\ history' = history
              /\ payments'[req[r].pid].reference = req[r].ref
              /\ payments'[req[r].pid].order = req[r].oid
              /\ IF outcome = "ok"
                 THEN /\ payments'[req[r].pid].status = "pending"
                      /\ payments'[req[r].pid].authorization_url
                      /\ resp' = Response("initialize", "initialized")
                 ELSE /\ payments'[req[r].pid].status = "failed"
                      /\ resp'.res \in {"gateway_failed", "server_error"}]_vars

\* the gateway has failed: the Payment is there, failed, and the order is as
\* checkout left it
C14_Witness ==
    /\ resp = Response("initialize", "gateway_failed")
    /\ Len(payments) = 1
    /\ payments[1].status = "failed"
    /\ ~payments[1].authorization_url
    /\ orders[1] = NewOrder("u1", 1, MaxPrice, 1)

\* the gateway has answered: the Payment is pending with its URL
C14_WitnessInitialized ==
    /\ resp = Response("initialize", "initialized")
    /\ payments[1].status = "pending"
    /\ payments[1].authorization_url

\* --------------------------------------------------------- verify: claims
\* C15: when the gateway reports that the transaction did not succeed, verify
\* marks the Payment failed, returns the failure, and leaves every field of the
\* linked Order unchanged.
C15_VerifyFailureMarksPayment ==
    [][\A r \in Reqs :
          VerifyGateway(r, "failed") =>
              /\ payments'[req[r].pid].status = "failed"
              /\ payments'[req[r].pid].reference = req[r].ref
              /\ resp' = Response("verify", "verification_failed")
              /\ req'[r].pc = "idle"
              /\ orders' = orders
              /\ history' = history]_vars

\* verify has recorded a failure reported by the gateway; the order is as
\* checkout left it
C15_Witness ==
    /\ resp = Response("verify", "verification_failed")
    /\ payments[1].status = "failed"
    /\ orders[1] = NewOrder("u1", 1, MaxPrice, 1)

\* C16: when the gateway's verify call times out or cannot be reached, verify
\* returns a retryable error and changes nothing: the Payment keeps its status
\* and the Order is unchanged.
C16_VerifyNetworkErrorMutatesNothing ==
    [][\A r \in Reqs :
          VerifyGateway(r, "network_error") =>
              /\ payments' = payments
              /\ orders' = orders]_vars

\* -------------------------------------------------------- webhook: claims
\* C17: a webhook whose signature is not the HMAC of the body under the shared
\* secret is rejected with a 400 and changes no state, whatever its event: the
\* handler answers "invalid signature" and does not go on to an event handler.
C17_InvalidSignatureRejected ==
    [][\A r \in Reqs, secret_set \in BOOLEAN, e \in WebhookEvents, ref \in Refs :
          WebhookRead(r, secret_set, "invalid", e, ref) =>
              /\ resp' = Response("webhook", "invalid_signature")
              /\ req'[r].pc = "idle"]_vars

\* C18: a correctly signed charge.success webhook whose reference is that of
\* an existing Payment takes the success path of verify: it is not answered
\* with "not found", and when it has been handled that Payment is successful
\* with paid_at set and its Order is paid, whether or not verify was called.
C18_WebhookSuccessMarksPayment ==
    [][\A r \in Reqs :
          /\ \A ref \in PayRefs :
                ( /\ WebhookRead(r, TRUE, "valid", "charge.success", ref)
                  /\ PaymentsWithRef(ref) # {} )
                    => req'[r].pc = "wh_paid"
          /\ (WebhookHistory(r) /\ req[r].new = "charge.success")
                => \A p \in PaymentsWithRef(req[r].ref) :
                      /\ payments'[p].status = "successful"
                      /\ payments'[p].paid_at # NoTime
                      /\ orders'[payments'[p].order].is_paid]_vars

\* C19: webhook handling is idempotent: a charge.success event delivered for
\* an order that is already paid leaves the order's paid_at, paid_amount,
\* is_paid, payment_status and payment_reference as the first delivery left
\* them.
C19_WebhookRedeliveryKeepsOrder ==
    [][\A r \in Reqs :
          (WebhookMarkPaid(r) /\ req[r].ord.is_paid /\ orders[req[r].oid] = req[r].ord)
              => /\ orders'[req[r].oid].paid_at = orders[req[r].oid].paid_at
                 /\ orders'[req[r].oid].paid_amount = orders[req[r].oid].paid_amount
                 /\ orders'[req[r].oid].is_paid = orders[req[r].oid].is_paid
                 /\ orders'[req[r].oid].payment_status = orders[req[r].oid].payment_status
                 /\ orders'[req[r].oid].payment_reference
                        = orders[req[r].oid].payment_reference]_vars

\* C20: a correctly signed charge.failed webhook for a known reference marks
\* the Payment of that reference failed and does not change the order's
\* delivery status: it is not answered with "not found", the order's status
\* after the event equals its status before, and when it has been handled the
\* Payment is failed.
C20_WebhookFailureMarksPayment ==
    [][\A r \in Reqs :
          /\ \A ref \in PayRefs :
                ( /\ WebhookRead(r, TRUE, "valid", "charge.failed", ref)
                  /\ PaymentsWithRef(ref) # {} )
                    => req'[r].pc = "wh_failed"
          /\ WebhookMarkFailed(r)
                => orders'[req[r].oid].status = orders[req[r].oid].status
          /\ (WebhookHistory(r) /\ req[r].new = "charge.failed")
                => \A p \in PaymentsWithRef(req[r].ref) :
                      payments'[p].status = "failed"]_vars

\* C21: a correctly signed webhook whose event is neither charge.success nor
\* charge.failed is acknowledged with a success response and changes no Order,
\* Payment or status-history row, whatever reference it carries.
C21_UnknownEventAcknowledged ==
    [][\A r \in Reqs, secret_set \in BOOLEAN, ref \in Refs :
          WebhookRead(r, secret_set, "valid", "other", ref) =>
              /\ resp' = Response("webhook", "received")
              /\ req'[r].pc = "idle"
              /\ orders' = orders
              /\ payments' = payments
              /\ history' = history]_vars

\* an unrecognised event has been acknowledged while an order carries a
\* payment reference; nothing has been written to the order or the ledger
C21_Witness ==
    /\ resp = Response("webhook", "received")
    /\ orders[1].payment_reference \in MockRefs
    /\ ~orders[1].is_paid
    /\ orders[1].payment_status = "pending"
    /\ history = <<>>

\* ------------------------------------------------------- history: claims
\* the status-change entries (admin update, customer cancel) of order o
StatusChangeEntries(o) ==
    {i \in DOMAIN history : history[i].order = o /\ history[i].changed_by # "system"}

\* C22: a history entry is written before or atomically with the status
\* change it records, so no entry records a transition the order never made:
\* when no update or cancel of an order is between its two writes, the order's
\* status is the new_status of its latest status-change entry.
C22_HistoryMatchesStatus ==
    \A o \in OrderIds :
        ( /\ StatusChangeEntries(o) # {}
          /\ \A r \in Reqs : ~(req[r].oid = o /\ req[r].pc \in {"us_save", "ca_save"}) )
            => LET last == CHOOSE i \in StatusChangeEntries(o) :
                               \A j \in StatusChangeEntries(o) : j <= i
               IN orders[o].status = history[last].new_status

C23_Witness ==
    /\ resp = Response("initialize", "server_error")
    /\ Len(payments) = 1
    /\ \E r \in Reqs : req[r].kind = "initialize" /\ req[r].pc = "in_gateway"
                          /\ req[r].ref = payments[1].reference

C24_NumberCollisionRetried ==
    [][\A r \in Reqs, n \in OrderNumbers :
          (CheckoutCreate(r, n) /\ NumberTaken(n))
              => /\ Len(orders') = Len(orders) + 1
                 /\ \A o \in DOMAIN orders :
                       orders'[Len(orders')].order_number # orders[o].order_number]_vars

\* ------------------------------------------------------- payment: ledger
\* C25: the Payment statuses successful and failed are terminal: a Payment
\* that is successful or failed keeps that status in every later step.
C25_PaymentStatusTerminal ==
    [][\A p \in PaymentIds :
          payments[p].status \in {"successful", "failed"}
              => payments'[p].status = payments[p].status]_vars

\* C26: the status-history ledger is append-only and Orders and Payments are
\* never deleted: in every step of checkout, status update, cancel, initiate,
\* verify and webhook (and of the menu and cart operations) every existing
\* history entry keeps its fields and its place, and every Order row and every
\* Payment row stays.
C26_LedgerAppendOnly ==
    [][/\ Len(history') >= Len(history)
       /\ \A i \in DOMAIN history : history'[i] = history[i]
       /\ Len(orders') >= Len(orders)
       /\ \A o \in OrderIds : orders'[o].order_number = orders[o].order_number
       /\ Len(payments') >= Len(payments)
       /\ \A p \in PaymentIds : payments'[p].reference = payments[p].reference]_vars

\* an order has been cancelled after a failed payment attempt: the order, the
\* failed Payment and the ledger entry of the cancellation are all there
C26_Witness ==
    /\ orders[1].status = "cancelled"
    /\ Len(payments) = 1
    /\ payments[1].status = "failed"
    /\ Len(history) = 1
    /\ history[1].new_status = "cancelled"

\* ----------------------------------------------------------- cart: claims
\* C27: re-adding a food increments the existing line's quantity, so that the
\* quantity is the sum of all quantities added, also for concurrent adds of the
\* same food: every save of a re-add leaves the line with more than it held.
C27_ReAddIncrements ==
    [][\A r \in Reqs :
          AddToCartSave(r) =>
              cartItems'[req[r].user][req[r].food].quantity
                  > cartItems[req[r].user][req[r].food].quantity]_vars

C28_WitnessSuccess ==
    /\ resp = Response("webhook", "processed")
    /\ orders[1].status = "pending"
    /\ history = <<HistoryEntry(1, "pending", "pending", "system", "charge.success")>>

\* -------------------------------------------------------- stamps: claims
\* C29: shipped_at and completed_at are stamped on entering shipped and
\* completed, and a stamped value is never overwritten afterwards: a status
\* update of an order that nothing else has written since the update read it
\* keeps the stamps the order has.
C29_StampsNeverOverwritten ==
    [][\A r \in Reqs :
          (UpdateStatusSave(r) /\ orders[req[r].oid] = req[r].ord)
              => /\ orders[req[r].oid].shipped_at # NoTime
                      => orders'[req[r].oid].shipped_at = orders[req[r].oid].shipped_at
                 /\ orders[req[r].oid].completed_at # NoTime
                      => orders'[req[r].oid].completed_at
                            = orders[req[r].oid].completed_at]_vars

\* C30: generation of a unique payment reference terminates: an initiate that
\* is drawing its reference leaves the loop, also when every reference is
\* taken.
C30_ReferenceLoopTerminates ==
    \A r \in Reqs : (req[r].pc = "in_ref") ~> (req[r].pc # "in_ref")

\* ------------------------------------------------- concurrency: checkout
\* the order lines of order o
LinesOf(o) == {it \in orderItems : it.order = o}

\* C31: for every order that has its lines, total_amount is the sum over the
\* lines of quantity times food_price and items_count is the sum of the lines'
\* quantities, also when a cart mutation or a price change falls between the
\* steps of checkout.
C31_TotalsMatchLines ==
    \A o \in OrderIds :
        LinesOf(o) # {} =>
            /\ orders[o].total_amount
                  = SumOver(LinesOf(o), [it \in LinesOf(o) |-> it.quantity * it.food_price])
            /\ orders[o].items_count
                  = SumOver(LinesOf(o), [it \in LinesOf(o) |-> it.quantity])

\* C32: two concurrent checkouts of one user against the same non-empty cart
\* produce at most one order for its contents: cart lines that one checkout has
\* copied into its order and not yet deleted are not copied into a second order.
C32_CartCopiedOnce ==
    [][\A r \in Reqs :
          (CheckoutItems(r) /\ CartLines(req[r].user) # {})
              => ~\E s \in Reqs \ {r} :
                     /\ req[s].kind = "checkout"
                     /\ req[s].user = req[r].user
                     /\ req[s].pc = "co_clear"]_vars

\* -------------------------------------------------- concurrency: payment
\* C33: an order's is_paid flag and its payment_status agree in every state:
\* is_paid holds exactly when payment_status is paid, and then paid_amount is
\* total_amount and paid_at is set.
C33_PaidFlagAgreesWithStatus ==
    \A o \in OrderIds :
        /\ orders[o].is_paid <=> orders[o].payment_status = "paid"
        /\ orders[o].is_paid
              => /\ orders[o].paid_amount = orders[o].total_amount
                 /\ orders[o].paid_at # NoTime

\* C34: in every state an order with is_paid = TRUE has a Payment in status
\* successful linked to it.
C34_PaidOrderHasSuccessfulPayment ==
    \A o \in OrderIds :
        orders[o].is_paid
            => \E p \in PaymentIds :
                  payments[p].order = o /\ payments[p].status = "successful"

\* C35: at most one Payment per order ever becomes successful: once one
\* Payment of an order is successful, no other Payment of that order is.
C35_OneSuccessfulPaymentPerOrder ==
    \A p, q \in PaymentIds :
        ( /\ p # q
          /\ payments[p].order = payments[q].order
          /\ payments[p].status = "successful" )
            => payments[q].status # "successful"

\* C36: the statuses completed and cancelled are absorbing: no write by an
\* admin status update, a customer cancel, a verify or a webhook changes the
\* status of an order whose stored status is completed or cancelled.
C36_TerminalStatusAbsorbing ==
    [][\A r \in Reqs :
          ( \/ UpdateStatusSave(r) \/ CancelSave(r) \/ VerifyMarkPaid(r)
            \/ WebhookMarkPaid(r) \/ WebhookMarkFailed(r) )
              => \A o \in OrderIds :
                    orders[o].status \in {"completed", "cancelled"}
                        => orders'[o].status = orders[o].status]_vars

\* C37: no lost update on the Order row between a payment confirmation and a
\* delivery-status change: the save of a verify or of a success webhook leaves
\* the stored status as it is, and the save of an admin status update or of a
\* customer cancel leaves the payment fields of a stored paid order as they are.
C37_ConfirmationKeepsStatus ==
    [][\A r \in Reqs :
          /\ (VerifyMarkPaid(r) \/ WebhookMarkPaid(r))
                => orders'[req[r].oid].status = orders[req[r].oid].status
          /\ ((UpdateStatusSave(r) \/ CancelSave(r)) /\ orders[req[r].oid].is_paid)
                => /\ orders'[req[r].oid].is_paid = orders[req[r].oid].is_paid
                   /\ orders'[req[r].oid].payment_status = orders[req[r].oid].payment_status
                   /\ orders'[req[r].oid].paid_amount = orders[req[r].oid].paid_amount
                   /\ orders'[req[r].oid].paid_at = orders[req[r].oid].paid_at
                   /\ orders'[req[r].oid].payment_reference
                         = orders[req[r].oid].payment_reference]_vars

\* C38: in every state an order that is cancelled and has a history entry of
\* its cancellation by the customer is unpaid.
C38_CustomerCancelledIsUnpaid ==
    \A o \in OrderIds :
        ( /\ orders[o].status = "cancelled"
          /\ \E i \in 1..Len(history) :
                /\ history[i].order = o
                /\ history[i].new_status = "cancelled"
                /\ history[i].changed_by = orders[o].user )
            => ~orders[o].is_paid

\* C39: cancel, initiate and verify on an order or a payment of another user
\* answer not found, end there (no gateway call follows) and leave the orders,
\* the payments and the history unchanged.
C39_OtherUsersRowsNotFound ==
    [][\A r \in Reqs, u \in Users :
          /\ \A o \in OrderIds :
                ( /\ orders[o].user # u
                  /\ \/ CancelRead(r, u, o)
                     \/ InitializeRead(r, u, o)
                     \/ \E ref \in MockRefs : MockInitiateRead(r, u, o, ref) )
                    => /\ resp'.res = "not_found"
                       /\ req'[r].pc = "idle"
                       /\ orders' = orders
                       /\ payments' = payments
                       /\ history' = history
          /\ \A ref \in PayRefs :
                ( /\ PaymentsWithRef(ref) # {}
                  /\ \A p \in PaymentsWithRef(ref) : payments[p].user # u
                  /\ VerifyRead(r, u, ref) )
                    => /\ resp'.res = "not_found"
                       /\ req'[r].pc = "idle"
                       /\ orders' = orders
                       /\ payments' = payments
                       /\ history' = history]_vars

====
